---- MODULE Spec2Model ----
(***************************************************************************)
(* Model of the ES|QL Monaco language-service adapter:                     *)
(*   offsetToRowColumn, wrapAsMonacoMessage and class ESQLAstAdapter.      *)
(* Text is a sequence of one-character strings.                            *)
(***************************************************************************)
EXTENDS Integers, Sequences, FiniteSets, TLC

VARIABLES
    expression, offset, position,       \* a direct call of offsetToRowColumn
    type, code, messages, wrapped,      \* a call of wrapAsMonacoMessage
    calls, workerCalls                  \* the calls on one ESQLAstAdapter

translateVars == <<expression, offset, position>>
wrapVars == <<type, code, messages, wrapped>>
adapterVars == <<calls, workerCalls>>
vars == <<translateVars, wrapVars, adapterVars>>

-----------------------------------------------------------------------------
(* Bounds *)

\* longest generated text buffer
MaxLen == 3
\* largest offset handed to the translator
MaxOffset == 7
\* largest offset in the location of a message
MaxLocation == 4
\* longest list of messages handed to wrapAsMonacoMessage
MaxMessages == 2
\* number of calls made on the adapter
MaxCalls == 2

-----------------------------------------------------------------------------
(* Text buffers *)

NL == "\n"

Alphabet == {"A", NL}

\* the buffer "A\nBB\nC" of the worked examples
ExampleBuffer == <<"A", NL, "B", "B", NL, "C">>

SeqsUpTo(S, n) == UNION {[1..k -> S] : k \in 0..n}

Buffers == SeqsUpTo(Alphabet, MaxLen) \cup {ExampleBuffer}

Offsets == 0..MaxOffset

\* a call that has not returned yet
NotCalled == [kind |-> "none"]

\* the value undefined where a string is expected; no buffer equals it, since
\* a buffer holds one-character strings
Undefined == <<"undefined">>

\* throw new Error('Algorithm failure')
AlgorithmFailure == [error |-> "Algorithm failure"]

\* undefined.split(...): TypeError
TypeError == [error |-> "TypeError"]

IsThrow(r) == "error" \in DOMAIN r

\* new monaco.Position(lineNumber, column)
Position(lineNumber, column) == [lineNumber |-> lineNumber, column |-> column]

-----------------------------------------------------------------------------
(* expression.split(/\n/) *)

RECURSIVE SplitAcc(_, _, _)
SplitAcc(s, line, acc) ==
    IF s = <<>> THEN Append(acc, line)
    ELSE IF Head(s) = NL THEN SplitAcc(Tail(s), <<>>, Append(acc, line))
    ELSE SplitAcc(Tail(s), Append(line, Head(s)), acc)

split(s) == SplitAcc(s, <<>>, <<>>)

-----------------------------------------------------------------------------
(* offsetToRowColumn: the for loop over the lines, then the throw *)

\* mutant: strict comparison, an offset at the end of a line is skipped
RECURSIVE forLinesStrict(_, _, _)
forLinesStrict(lines, remainingChars, lineNumber) ==
    IF lines = <<>> THEN AlgorithmFailure
    ELSE IF Len(Head(lines)) > remainingChars
         THEN Position(lineNumber, remainingChars + 1)
         ELSE forLinesStrict(Tail(lines), remainingChars - (Len(Head(lines)) + 1),
                             lineNumber + 1)

\* mutant: clamps to the end of the last line instead of throwing
RECURSIVE forLinesClamp(_, _, _)
forLinesClamp(lines, remainingChars, lineNumber) ==
    IF Len(Head(lines)) >= remainingChars \/ Len(lines) = 1
    THEN Position(lineNumber,
                  (IF Len(Head(lines)) >= remainingChars
                   THEN remainingChars ELSE Len(Head(lines))) + 1)
    ELSE forLinesClamp(Tail(lines), remainingChars - (Len(Head(lines)) + 1),
                       lineNumber + 1)

\* mutant: the column is left 0-based
RECURSIVE forLinesZeroBased(_, _, _)
forLinesZeroBased(lines, remainingChars, lineNumber) ==
    IF lines = <<>> THEN AlgorithmFailure
    ELSE IF Len(Head(lines)) >= remainingChars
         THEN Position(lineNumber, remainingChars)
         ELSE forLinesZeroBased(Tail(lines), remainingChars - (Len(Head(lines)) + 1),
                                lineNumber + 1)

RECURSIVE forLines(_, _, _)
forLines(lines, remainingChars, lineNumber) ==
    IF lines = <<>> THEN AlgorithmFailure
    ELSE IF Len(Head(lines)) >= remainingChars
         THEN Position(lineNumber, remainingChars + 1)
         ELSE forLines(Tail(lines), remainingChars - (Len(Head(lines)) + 1),
                       lineNumber + 1)

offsetToRowColumn(expr, off) ==
    IF expr = Undefined THEN TypeError ELSE forLines(split(expr), off, 1)

-----------------------------------------------------------------------------
(* Messages: ESQLMessage (raw, with or without a location) and EditorError *)

Types == {"error", "warning"}

\* location ranges of the parser: min <= max
Locations ==
    {l \in [min : 0..MaxLocation, max : 0..MaxLocation] : l.min <= l.max}

RawLocated == {[text |-> "bad", location |-> l] : l \in Locations}

RawUnlocated == {[text |-> "lost"]}

\* messages that are editor markers already
EditorErrors ==
    {[message |-> "old", startColumn |-> 1, startLineNumber |-> 1,
      endColumn |-> 2, endLineNumber |-> 1, severity |-> sev, _source |-> "client"] :
        sev \in {"Error", "Warning"}}

Messages == RawLocated \cup RawUnlocated \cup EditorErrors

\* 'severity' in e
hasSeverity(e) == "severity" \in DOMAIN e

\* e.location is truthy
hasLocation(e) == "location" \in DOMAIN e

\* x || 0
OrZero(x) == IF x = 0 THEN 0 ELSE x

fallbackPosition == [column |-> 0, lineNumber |-> 0]

\* type === 'error' ? monaco.MarkerSeverity.Error : monaco.MarkerSeverity.Warning
MarkerSeverity(t) == IF t = "error" THEN "Error" ELSE "Warning"

-----------------------------------------------------------------------------
(* wrapAsMonacoMessage: the callback of messages.map.  wrapMessage is its  *)
(* part for a raw message: `out` is the marker, or the throw of a          *)
(* translation; `calls` lists the calls of offsetToRowColumn made on the   *)
(* way, in order.                                                          *)

\* mutant: the end column is copied without the + 1
wrapMessageInclusiveEnd(t, c, e) ==
    IF ~hasLocation(e)
    THEN [out |-> [message |-> e.text,
                   startColumn |-> fallbackPosition.column,
                   startLineNumber |-> fallbackPosition.lineNumber,
                   endColumn |-> fallbackPosition.column,
                   endLineNumber |-> fallbackPosition.lineNumber,
                   severity |-> MarkerSeverity(t), _source |-> "client"],
          calls |-> <<>>]
    ELSE LET startPosition == offsetToRowColumn(c, e.location.min)
             endPosition == offsetToRowColumn(c, OrZero(e.location.max))
             first == <<[expression |-> c, offset |-> e.location.min]>>
             second == <<[expression |-> c, offset |-> OrZero(e.location.max)]>>
         IN IF IsThrow(startPosition) THEN [out |-> startPosition, calls |-> first]
            ELSE IF IsThrow(endPosition)
            THEN [out |-> endPosition, calls |-> first \o second]
            ELSE [out |-> [message |-> e.text,
                           startColumn |-> startPosition.column,
                           startLineNumber |-> startPosition.lineNumber,
                           endColumn |-> endPosition.column,
                           endLineNumber |-> endPosition.lineNumber,
                           severity |-> MarkerSeverity(t), _source |-> "client"],
                  calls |-> first \o second]

\* mutant: a message without a location is placed by translating offset 0
wrapMessageTranslatedFallback(t, c, e) ==
    LET min == IF hasLocation(e) THEN e.location.min ELSE 0
             max == IF hasLocation(e) THEN OrZero(e.location.max) ELSE 0
             startPosition == offsetToRowColumn(c, min)
             endPosition == offsetToRowColumn(c, max)
             first == <<[expression |-> c, offset |-> min]>>
             second == <<[expression |-> c, offset |-> max]>>
         IN IF IsThrow(startPosition) THEN [out |-> startPosition, calls |-> first]
            ELSE IF IsThrow(endPosition)
            THEN [out |-> endPosition, calls |-> first \o second]
            ELSE [out |-> [message |-> e.text,
                           startColumn |-> startPosition.column,
                           startLineNumber |-> startPosition.lineNumber,
                           endColumn |-> endPosition.column + 1,
                           endLineNumber |-> endPosition.lineNumber,
                           severity |-> MarkerSeverity(t), _source |-> "client"],
                  calls |-> first \o second]

wrapMessage(t, c, e) ==
    LET startPosition ==
                 IF hasLocation(e) THEN offsetToRowColumn(c, e.location.min)
                 ELSE fallbackPosition
             endPosition ==
                 IF hasLocation(e) THEN offsetToRowColumn(c, OrZero(e.location.max))
                 ELSE fallbackPosition
             first ==
                 IF hasLocation(e)
                 THEN <<[expression |-> c, offset |-> e.location.min]>> ELSE <<>>
             second ==
                 IF hasLocation(e)
                 THEN <<[expression |-> c, offset |-> OrZero(e.location.max)]>>
                 ELSE <<>>
         IN IF IsThrow(startPosition) THEN [out |-> startPosition, calls |-> first]
            ELSE IF IsThrow(endPosition)
            THEN [out |-> endPosition, calls |-> first \o second]
            ELSE [out |-> [message |-> e.text,
                           startColumn |-> startPosition.column,
                           startLineNumber |-> startPosition.lineNumber,
                           endColumn |-> endPosition.column + 1,
                           endLineNumber |-> endPosition.lineNumber,
                           severity |-> MarkerSeverity(t), _source |-> "client"],
                  calls |-> first \o second]

\* mutant: a message that is a marker already gets the severity of the tag
passThroughRestamped(t, e) == [e EXCEPT !.severity = MarkerSeverity(t)]

\* if ('severity' in e) return e
passThrough(t, e) == e

\* one step of messages.map
mapCallback(t, c, e) ==
    IF hasSeverity(e) THEN [out |-> passThrough(t, e), calls |-> <<>>]
    ELSE wrapMessage(t, c, e)

\* messages.map(...): in order; the first throw ends the call
RECURSIVE mapMessages(_, _, _, _, _)
mapMessages(t, c, rest, done, made) ==
    IF rest = <<>> THEN [value |-> done, calls |-> made]
    ELSE LET r == mapCallback(t, c, Head(rest))
         IN IF IsThrow(r.out)
            THEN [error |-> r.out.error, calls |-> made \o r.calls]
            ELSE mapMessages(t, c, Tail(rest), Append(done, r.out), made \o r.calls)

wrapAsMonacoMessage(t, c, ms) == mapMessages(t, c, ms, <<>>, <<>>)

-----------------------------------------------------------------------------
(* ESQLAstAdapter: data of the collaborators *)

CallIds == 1..MaxCalls

Uris == {"file1", "file2"}

\* model.getValue()
getValue(uri) == IF uri = "file1" THEN ExampleBuffer ELSE <<"A", NL, "A">>

\* the code argument of validate and getAst
CodeArgs == {Undefined, <<"A">>}

Located(min, max) == [text |-> "bad", location |-> [min |-> min, max |-> max]]

\* what validateAst may answer
ValidationAnswers ==
    {[errors |-> <<>>, warnings |-> <<>>],
     [errors |-> <<Located(0, 1)>>, warnings |-> <<>>],
     [errors |-> <<Located(0, 1)>>, warnings |-> <<Located(2, 3)>>],
     [errors |-> <<Located(0, 0), Located(2, 3)>>, warnings |-> <<>>],
     [errors |-> <<CHOOSE m \in EditorErrors : m.severity = "Warning",
                   [text |-> "lost"]>>,
      warnings |-> <<Located(0, 0)>>]}

\* what suggest may answer
SuggestionAnswers ==
    LET from == [label |-> "from", kind |-> "keyword",
                 range |-> [startLineNumber |-> 1, startColumn |-> 1,
                            endLineNumber |-> 1, endColumn |-> 5]]
        limit == [label |-> "limit", kind |-> "keyword",
                  range |-> [startLineNumber |-> 2, startColumn |-> 1,
                             endLineNumber |-> 2, endColumn |-> 3]]
        field == [label |-> "field", kind |-> "variable"]
    IN {<<>>, <<from>>, <<limit, from>>, <<field, limit>>}

Ops == {"validate", "suggestSignature", "getHover", "autocomplete", "getAst"}

\* the module a call forwards to
ModuleOf(op) ==
    CASE op = "validate" -> "validateAst"
      [] op = "suggestSignature" -> "getSignatureHelp"
      [] op = "getHover" -> "getHoverItem"
      [] op = "autocomplete" -> "suggest"
      [] op = "getAst" -> "getAstFn"

AnswersOf(op) ==
    CASE op = "validate" -> ValidationAnswers
      [] op = "suggestSignature" -> {[signatures |-> "help"]}
      [] op = "getHover" -> {[contents |-> "hover"]}
      [] op = "autocomplete" -> SuggestionAnswers
      [] op = "getAst" -> {[ast |-> "tree"]}
      [] OTHER -> {}

NoValue == [kind |-> "none"]

\* a call that was not made yet
IdleCall ==
    [op |-> "none", pc |-> "idle", uri |-> "none", code |-> Undefined,
     worker |-> "none", workerUri |-> "none", tries |-> 0, awaits |-> 0,
     module |-> "none", invoked |-> "none", getAstFn |-> 0, text |-> Undefined,
     answer |-> NoValue, wrapCode |-> Undefined, error |-> "none",
     result |-> NoValue]

Started == {c \in CallIds : calls[c].pc # "idle"}

-----------------------------------------------------------------------------
(* ESQLAstAdapter.getAstWorker up to its await: this.worker(model.uri) *)

\* mutant: a pending or resolved worker promise of the same URI is shared
getAstWorkerShared(c, uri) ==
    IF \E d \in CallIds : calls[d].workerUri = uri /\ calls[d].worker # "rejected"
    THEN [workerCalls |-> workerCalls,
          call |-> [worker |-> "pending", workerUri |-> uri, tries |-> 0,
                    awaits |-> CHOOSE d \in CallIds :
                                   calls[d].workerUri = uri /\ calls[d].worker # "rejected"]]
    ELSE [workerCalls |-> workerCalls + 1,
          call |-> [worker |-> "pending", workerUri |-> uri, tries |-> 1, awaits |-> c]]

getAstWorker(c, uri) ==
    [workerCalls |-> workerCalls + 1,
     call |-> [worker |-> "pending", workerUri |-> uri, tries |-> 1, awaits |-> c]]

\* the synchronous part of every operation: it runs to the await of getAstWorker
Begin(c, op, uri, codeArg) ==
    /\ calls[c].pc = "idle"
    /\ \A d \in CallIds : d < c => calls[d].pc # "idle"
    /\ LET w == getAstWorker(c, uri)
       IN /\ workerCalls' = w.workerCalls
          /\ calls' = [calls EXCEPT ![c] =
                 [IdleCall EXCEPT !.op = op, !.pc = "awaitWorker", !.uri = uri,
                                  !.code = codeArg, !.worker = w.call.worker,
                                  !.workerUri = w.call.workerUri,
                                  !.tries = w.call.tries, !.awaits = w.call.awaits]]
    /\ UNCHANGED <<translateVars, wrapVars>>

validate(c, uri, codeArg) == Begin(c, "validate", uri, codeArg)

suggestSignature(c, uri) == Begin(c, "suggestSignature", uri, Undefined)

getHover(c, uri) == Begin(c, "getHover", uri, Undefined)

autocomplete(c, uri) == Begin(c, "autocomplete", uri, Undefined)

getAst(c, uri, codeArg) == Begin(c, "getAst", uri, codeArg)

-----------------------------------------------------------------------------
(* the worker promise settles: the call resumes and invokes its module *)

\* code ?? model.getValue()
CodeOrValue(codeArg, uri) == IF codeArg = Undefined THEN getValue(uri) ELSE codeArg

\* the source text handed to the module; the other modules get the model
TextHanded(call) ==
    IF call.op \in {"validate", "getAst"} THEN CodeOrValue(call.code, call.uri)
    ELSE Undefined

WorkerResolves(c) ==
    /\ calls[c].pc = "awaitWorker"
    /\ LET call == calls[c]
       IN calls' = [calls EXCEPT ![c] =
              [call EXCEPT !.pc = "awaitModule", !.worker = "resolved",
                           !.module = "pending", !.invoked = ModuleOf(call.op),
                           !.getAstFn = call.awaits, !.text = TextHanded(call)]]
    /\ UNCHANGED <<workerCalls, translateVars, wrapVars>>

\* the rejection leaves getAstWorker and the operation uncaught
WorkerRejects(c) ==
    /\ calls[c].pc = "awaitWorker"
    /\ calls' = [calls EXCEPT ![c] =
           [@ EXCEPT !.pc = "failed", !.worker = "rejected", !.error = "worker"]]
    /\ UNCHANGED <<workerCalls, translateVars, wrapVars>>

-----------------------------------------------------------------------------
(* the module settles: the rest of the operation *)

\* wrapAsMonacoMessage with the messages that cannot be translated left out
RECURSIVE wrapSkipping(_, _, _)
wrapSkipping(t, c, ms) ==
    IF ms = <<>> THEN <<>>
    ELSE LET r == mapCallback(t, c, Head(ms))
         IN (IF IsThrow(r.out) THEN <<>> ELSE <<r.out>>) \o wrapSkipping(t, c, Tail(ms))

\* mutant: validate keeps the markers of the messages that could be translated
validateRestPartial(codeArg, answer) ==
    [result |-> [errors |-> wrapSkipping("error", codeArg, answer.errors),
                 warnings |-> wrapSkipping("warning", codeArg, answer.warnings)],
     wrapCode |-> codeArg, error |-> "none"]

\* validate after the await of validateAst
validateRest(codeArg, answer) ==
    LET monacoErrors == wrapAsMonacoMessage("error", codeArg, answer.errors)
        monacoWarnings == wrapAsMonacoMessage("warning", codeArg, answer.warnings)
    IN IF IsThrow(monacoErrors)
       THEN [result |-> NoValue, wrapCode |-> codeArg, error |-> monacoErrors.error]
       ELSE IF IsThrow(monacoWarnings)
       THEN [result |-> NoValue, wrapCode |-> codeArg, error |-> monacoWarnings.error]
       ELSE [result |-> [errors |-> monacoErrors.value,
                         warnings |-> monacoWarnings.value],
             wrapCode |-> codeArg, error |-> "none"]

\* the value undefined in a range field
UndefinedRange == [undefined |-> TRUE]

\* { ...suggestion, range: undefined }
ResetRange(suggestion) ==
    [f \in DOMAIN suggestion \cup {"range"} |->
        IF f = "range" THEN UndefinedRange ELSE suggestion[f]]

\* mutant: the range is set only on the entries that have none
autocompleteRestKeepRange(suggestionEntries) ==
    [suggestions |->
        [i \in 1..Len(suggestionEntries) |->
            IF "range" \in DOMAIN suggestionEntries[i]
            THEN suggestionEntries[i] ELSE ResetRange(suggestionEntries[i])]]

\* autocomplete after the await of suggest
autocompleteRest(suggestionEntries) ==
    [suggestions |->
        [i \in 1..Len(suggestionEntries) |-> ResetRange(suggestionEntries[i])]]

ModuleReturns(c) ==
    /\ calls[c].pc = "awaitModule"
    /\ \E answer \in AnswersOf(calls[c].op) :
       LET call == calls[c]
           v == validateRest(call.code, answer)
       IN calls' = [calls EXCEPT ![c] =
              CASE call.op = "validate" ->
                     [call EXCEPT !.module = "returned", !.answer = answer,
                                  !.wrapCode = v.wrapCode, !.error = v.error,
                                  !.result = v.result,
                                  !.pc = IF v.error = "none" THEN "returned" ELSE "failed"]
                [] call.op = "autocomplete" ->
                     [call EXCEPT !.module = "returned", !.answer = answer,
                                  !.result = autocompleteRest(answer),
                                  !.pc = "returned"]
                [] OTHER ->
                     [call EXCEPT !.module = "returned", !.answer = answer,
                                  !.result = answer, !.pc = "returned"]]
    /\ UNCHANGED <<workerCalls, translateVars, wrapVars>>

\* the rejection leaves the operation uncaught
ModuleRejects(c) ==
    /\ calls[c].pc = "awaitModule"
    /\ calls' = [calls EXCEPT ![c] =
           [@ EXCEPT !.pc = "failed", !.module = "rejected", !.error = "module"]]
    /\ UNCHANGED <<workerCalls, translateVars, wrapVars>>

-----------------------------------------------------------------------------
(* Specification of direct calls of the exported offsetToRowColumn *)

\* the variables of a call that is not part of the specification at hand
IdleTranslate == expression = <<>> /\ offset = 0 /\ position = NotCalled
IdleWrap == type = "error" /\ code = <<>> /\ messages = <<>> /\ wrapped = NotCalled
IdleAdapter == calls = [c \in CallIds |-> IdleCall] /\ workerCalls = 0

InitTranslate ==
    /\ expression \in Buffers
    /\ offset \in Offsets
    /\ position = NotCalled
    /\ IdleWrap
    /\ IdleAdapter

CallOffsetToRowColumn ==
    /\ position = NotCalled
    /\ position' = offsetToRowColumn(expression, offset)
    /\ UNCHANGED <<expression, offset, wrapVars, adapterVars>>

NextTranslate == CallOffsetToRowColumn

SpecTranslate == InitTranslate /\ [][NextTranslate]_vars

-----------------------------------------------------------------------------
(* Specification of calls of wrapAsMonacoMessage; validate may pass an     *)
(* undefined code                                                          *)

InitWrap ==
    /\ type \in Types
    /\ code \in Buffers \cup {Undefined}
    /\ messages \in SeqsUpTo(Messages, MaxMessages)
    /\ wrapped = NotCalled
    /\ IdleTranslate
    /\ IdleAdapter

CallWrapAsMonacoMessage ==
    /\ wrapped = NotCalled
    /\ wrapped' = wrapAsMonacoMessage(type, code, messages)
    /\ UNCHANGED <<type, code, messages, translateVars, adapterVars>>

NextWrap == CallWrapAsMonacoMessage

SpecWrap == InitWrap /\ [][NextWrap]_vars

-----------------------------------------------------------------------------
(* Specification of the adapter: up to MaxCalls calls, interleaved at      *)
(* their awaits                                                            *)

Init == IdleAdapter /\ IdleTranslate /\ IdleWrap

Next ==
    \E c \in CallIds :
        \/ \E uri \in Uris, codeArg \in CodeArgs : validate(c, uri, codeArg)
        \/ \E uri \in Uris : suggestSignature(c, uri)
        \/ \E uri \in Uris : getHover(c, uri)
        \/ \E uri \in Uris : autocomplete(c, uri)
        \/ \E uri \in Uris, codeArg \in CodeArgs : getAst(c, uri, codeArg)
        \/ WorkerResolves(c)
        \/ WorkerRejects(c)
        \/ ModuleReturns(c)
        \/ ModuleRejects(c)

Spec == Init /\ [][Next]_vars

-----------------------------------------------------------------------------
(* Counting characters back from a position, directly on the buffer *)

NewlinesBefore(b, i) == Cardinality({j \in 1..i : b[j] = NL})

\* offset of the first character of line `line` (1-based) of b, or -1
LineStart(b, line) ==
    IF line = 1 THEN 0
    ELSE IF \E i \in 1..Len(b) : b[i] = NL /\ NewlinesBefore(b, i) = line - 1
         THEN CHOOSE i \in 1..Len(b) : b[i] = NL /\ NewlinesBefore(b, i) = line - 1
         ELSE -1

PositionToOffset(b, p) ==
    IF LineStart(b, p.lineNumber) < 0 THEN -1
    ELSE LineStart(b, p.lineNumber) + (p.column - 1)

\* C1: for 0 <= o <= length(b), offsetToRowColumn returns a 1-based position
\* whose line start plus (column - 1), counted on the buffer, is o exactly.
C1_RoundTrip ==
    (position # NotCalled /\ offset <= Len(expression)) =>
        /\ ~IsThrow(position)
        /\ position.lineNumber >= 1
        /\ position.column >= 1
        /\ PositionToOffset(expression, position) = offset

C1_Witness ==
    /\ position # NotCalled
    /\ offset <= Len(expression)
    /\ expression = <<"A", NL, "A">>
    /\ offset = 3
    /\ position = Position(2, 2)

\* C2: for every buffer (the empty one and those ending in a newline too) and
\* every offset beyond its length, offsetToRowColumn throws, never returns.
C2_BeyondEndThrows ==
    (position # NotCalled /\ offset > Len(expression)) =>
        position = AlgorithmFailure

C2_Witness ==
    /\ position = AlgorithmFailure
    /\ expression = <<"A", NL>>
    /\ offset = 3

\* C3 as stated: on "A\nBB\nC", offset 6 gives line 3, column 1.
C3_Original ==
    (position # NotCalled /\ expression = ExampleBuffer /\ offset = 6) =>
        position = Position(3, 1)

\* C3 amended: on "A\nBB\nC", offset 6 (the end of the buffer) gives line 3,
\* column 2; column 1 of line 3 is offset 5.
C3_EndOfExampleBuffer ==
    /\ (position # NotCalled /\ expression = ExampleBuffer /\ offset = 6) =>
           position = Position(3, 2)
    /\ (position # NotCalled /\ expression = ExampleBuffer /\ offset = 5) =>
           position = Position(3, 1)

C3_Witness ==
    /\ position # NotCalled
    /\ expression = ExampleBuffer
    /\ offset = 6

-----------------------------------------------------------------------------
(* Claims about wrapAsMonacoMessage, under SpecWrap *)

IsRaw(e) == ~hasSeverity(e)

LocatedRaw == {i \in 1..Len(messages) : IsRaw(messages[i]) /\ hasLocation(messages[i])}

UnlocatedRaw == {i \in 1..Len(messages) : IsRaw(messages[i]) /\ ~hasLocation(messages[i])}

AlreadyMarkers == {i \in 1..Len(messages) : hasSeverity(messages[i])}

Returned(r) == r # NotCalled /\ ~IsThrow(r)

\* C4: a raw message with a location inside the buffer becomes a marker with
\* the message text, start = translate(min), end line = translate(max).line,
\* end column = translate(max).column + 1, severity Error for the tag
\* 'error' and Warning for 'warning', and source 'client'; {min: 2, max: 3} on
\* "A\nBB\nC" gives start (2,1) and end (2,3).
C4_LocatedMessage ==
    (/\ wrapped # NotCalled
     /\ code # Undefined
     /\ \A i \in LocatedRaw : messages[i].location.max <= Len(code)) =>
        /\ ~IsThrow(wrapped)
        /\ Len(wrapped.value) = Len(messages)
        /\ \A i \in LocatedRaw :
             LET m == wrapped.value[i]
                 from == offsetToRowColumn(code, messages[i].location.min)
                 to == offsetToRowColumn(code, messages[i].location.max)
             IN /\ m.message = messages[i].text
                /\ m.startLineNumber = from.lineNumber
                /\ m.startColumn = from.column
                /\ m.endLineNumber = to.lineNumber
                /\ m.endColumn = to.column + 1
                /\ type = "error" => m.severity = "Error"
                /\ type = "warning" => m.severity = "Warning"
                /\ m._source = "client"
                /\ (code = ExampleBuffer /\ messages[i].location = [min |-> 2, max |-> 3]) =>
                       /\ m.startLineNumber = 2 /\ m.startColumn = 1
                       /\ m.endLineNumber = 2 /\ m.endColumn = 3

C4_Witness ==
    /\ Returned(wrapped)
    /\ type = "warning"
    /\ code = ExampleBuffer
    /\ messages = <<[text |-> "bad", location |-> [min |-> 2, max |-> 3]]>>
    /\ wrapped.value[1].endColumn = 3
    /\ wrapped.value[1].severity = "Warning"

\* C5: a message that has a severity field already is returned unchanged, at
\* its own place in the list and with its own severity whatever the tag; so
\* wrapping the output of a wrap again, with any tag and buffer, yields the
\* same list; every wrapped message carries line and column, never offsets.
C5_PassThroughIdempotent ==
    Returned(wrapped) =>
        /\ Len(wrapped.value) = Len(messages)
        /\ \A i \in AlreadyMarkers : wrapped.value[i] = messages[i]
        /\ \A i \in 1..Len(wrapped.value) :
             hasSeverity(wrapped.value[i]) /\ ~hasLocation(wrapped.value[i])
        /\ \A t \in Types : \A c \in {code, Undefined, ExampleBuffer} :
             /\ ~IsThrow(wrapAsMonacoMessage(t, c, wrapped.value))
             /\ wrapAsMonacoMessage(t, c, wrapped.value).value = wrapped.value

C5_Witness ==
    /\ Returned(wrapped)
    /\ type = "error"
    /\ Len(messages) = 2
    /\ hasSeverity(messages[1]) /\ messages[1].severity = "Warning"
    /\ IsRaw(messages[2]) /\ hasLocation(messages[2])
    /\ wrapped.value[1] = messages[1]

\* C6 as stated: a raw message without a location is wrapped without a call
\* of the translator and gets line 0, column 0 for its start and for its end.
C6_Original ==
    /\ (wrapped # NotCalled /\ LocatedRaw = {}) =>
           ~IsThrow(wrapped) /\ wrapped.calls = <<>>
    /\ Returned(wrapped) =>
           \A i \in UnlocatedRaw :
               /\ wrapped.value[i].startLineNumber = 0
               /\ wrapped.value[i].startColumn = 0
               /\ wrapped.value[i].endLineNumber = 0
               /\ wrapped.value[i].endColumn = 0

\* C6 amended: a raw message without a location is wrapped without a call of
\* the translator (so no buffer, not even an undefined one, makes it fail);
\* the fallback position {line 0, column 0} is used for its start and its end,
\* and the end column gets the same + 1 as a translated one: the marker has
\* start line 0, start column 0, end line 0, end column 1.
C6_FallbackPosition ==
    /\ (wrapped # NotCalled /\ LocatedRaw = {}) =>
           ~IsThrow(wrapped) /\ wrapped.calls = <<>>
    /\ wrapped # NotCalled =>
           /\ Len(wrapped.calls) <= 2 * Cardinality(LocatedRaw)
           /\ \A k \in 1..Len(wrapped.calls) :
                \E i \in LocatedRaw :
                    wrapped.calls[k].offset \in
                        {messages[i].location.min, messages[i].location.max}
    /\ Returned(wrapped) =>
           \A i \in UnlocatedRaw :
               /\ wrapped.value[i].startLineNumber = 0
               /\ wrapped.value[i].startColumn = 0
               /\ wrapped.value[i].endLineNumber = 0
               /\ wrapped.value[i].endColumn = 1

C6_Witness ==
    /\ Returned(wrapped)
    /\ code = Undefined
    /\ messages = <<[text |-> "lost"]>>
    /\ wrapped.value[1].endColumn = 1
    /\ wrapped.calls = <<>>

-----------------------------------------------------------------------------
(* Claims about ESQLAstAdapter, under Spec *)

\* C7: a successful autocomplete returns one entry per entry of the
\* suggestion module, in the same order, each with its range undefined
\* whatever range was supplied and with its other fields unchanged.
C7_AutocompleteResetsRange ==
    \A c \in CallIds :
        (calls[c].op = "autocomplete" /\ calls[c].pc = "returned") =>
            LET given == calls[c].answer
                got == calls[c].result.suggestions
            IN /\ Len(got) = Len(given)
               /\ \A i \in 1..Len(given) :
                    /\ got[i].range = UndefinedRange
                    /\ DOMAIN got[i] = DOMAIN given[i] \cup {"range"}
                    /\ \A f \in DOMAIN given[i] \ {"range"} : got[i][f] = given[i][f]

C7_Witness ==
    \E c \in CallIds :
        /\ calls[c].op = "autocomplete"
        /\ calls[c].pc = "returned"
        /\ Len(calls[c].answer) = 2
        /\ "range" \in DOMAIN calls[c].answer[1]
        /\ calls[c].answer[1].range # UndefinedRange
        /\ calls[c].result.suggestions[1].label = "limit"
        /\ calls[c].result.suggestions[2].range = UndefinedRange

\* C8: in every interleaving, each call starts exactly one worker resolution,
\* keyed by the URI of its model; the resolution has completed before the
\* call invokes its module; the parser function a call hands to its module is
\* the one its own resolution gave; and the number of resolutions started
\* equals the number of calls started.
C8_OneResolutionPerCall ==
    /\ workerCalls = Cardinality(Started)
    /\ \A c \in CallIds :
         /\ c \in Started =>
              /\ calls[c].tries = 1
              /\ calls[c].workerUri = calls[c].uri
              /\ calls[c].awaits = c
         /\ c \notin Started => calls[c].tries = 0 /\ calls[c].worker = "none"
         /\ calls[c].module # "none" =>
              /\ calls[c].worker = "resolved"
              /\ calls[c].getAstFn = c
              /\ calls[c].invoked = ModuleOf(calls[c].op)

C8_Witness ==
    \E c, d \in CallIds :
        /\ c # d
        /\ calls[c].uri = calls[d].uri
        /\ calls[c].op = calls[d].op
        /\ calls[c].module = "pending"
        /\ calls[d].worker = "pending"
        /\ workerCalls = 2

\* a message whose translation against the buffer b throws
Untranslatable(b, e) ==
    /\ ~hasSeverity(e)
    /\ hasLocation(e)
    /\ \/ IsThrow(offsetToRowColumn(b, e.location.min))
       \/ IsThrow(offsetToRowColumn(b, e.location.max))

SomeUntranslatable(b, answer) ==
    \/ \E i \in 1..Len(answer.errors) : Untranslatable(b, answer.errors[i])
    \/ \E i \in 1..Len(answer.warnings) : Untranslatable(b, answer.warnings[i])

\* C9: an operation fully succeeds or fully fails.  When the worker
\* resolution fails the module is never invoked, the resolution is not
\* retried and the call has failed; when the module fails, or in validate the
\* translation of one message fails, the call has failed and has no result,
\* not even the markers of the messages that can be translated; a call that
\* returned has its whole result.
C9_AllOrNothing ==
    \A c \in CallIds :
        LET call == calls[c]
        IN /\ call.worker = "rejected" =>
                /\ call.module = "none" /\ call.invoked = "none"
                /\ call.tries = 1
                /\ call.pc = "failed" /\ call.result = NoValue
           /\ call.module = "rejected" =>
                call.pc = "failed" /\ call.result = NoValue
           /\ (/\ call.op = "validate"
               /\ call.module = "returned"
               /\ SomeUntranslatable(call.code, call.answer)) =>
                call.pc = "failed" /\ call.result = NoValue
           /\ call.pc = "failed" => call.result = NoValue /\ call.error # "none"
           /\ call.pc = "returned" =>
                /\ call.result # NoValue /\ call.error = "none"
                /\ call.op = "validate" =>
                     /\ Len(call.result.errors) = Len(call.answer.errors)
                     /\ Len(call.result.warnings) = Len(call.answer.warnings)

C9_Witness ==
    \E c \in CallIds :
        /\ calls[c].op = "validate"
        /\ calls[c].module = "returned"
        /\ calls[c].code = <<"A">>
        /\ calls[c].answer.errors = <<Located(0, 0), Located(2, 3)>>
        /\ ~Untranslatable(<<"A">>, Located(0, 0))
        /\ calls[c].pc = "failed"
        /\ calls[c].error = "Algorithm failure"
        /\ calls[c].result = NoValue

HasLocated(answer) ==
    \/ \E i \in 1..Len(answer.errors) :
           ~hasSeverity(answer.errors[i]) /\ hasLocation(answer.errors[i])
    \/ \E i \in 1..Len(answer.warnings) :
           ~hasSeverity(answer.warnings[i]) /\ hasLocation(answer.warnings[i])

\* C10: in validate, the buffer against which the offsets of the messages
\* are translated is the text that was handed to the validation module, also
\* when no code argument is given and the text of the model is validated.
C10_TranslatedAgainstValidatedText ==
    \A c \in CallIds :
        (/\ calls[c].op = "validate"
         /\ calls[c].module = "returned"
         /\ HasLocated(calls[c].answer)) =>
            calls[c].wrapCode = calls[c].text

====
